---- MODULE Spec2Model ----
(***************************************************************************)
(* Model of src/src/app.py: the time-string validator, the cutlist parser, *)
(* the three ffmpeg wrappers and the four request handlers that use them.  *)
(*                                                                         *)
(* Python strings are sequences of one-character strings; a Python value   *)
(* that may or may not be a string is a record [t, v] (PyStr / PyNone).    *)
(***************************************************************************)
EXTENDS Integers, Sequences, FiniteSets, TLC

VARIABLES
    \* ---- validate_time_format, run on its own (SpecTime)
    time_str,       \* the argument
    time_result,    \* "none" before the call, then "True" / "False" / "raised"
    \* ---- process_cutlist, one loop iteration per step (SpecCutlist)
    line,           \* the line the file iterator yielded, <<>> once the body ran on it
    cuts,           \* the list built so far
    nread,          \* lines consumed
    eof,            \* the file iterator is exhausted
    \* ---- the request handlers (Spec)
    req,            \* the JSON body of the request and its endpoint
    inputExists,    \* os.path.exists(input_path)
    cutlistExists,  \* os.path.exists(cutlist_path)
    cutlistFile,    \* the lines of the cutlist file
    dirState,       \* what is at output_dir: "absent", "dir" or "file"
    outFiles,       \* output paths that exist
    toolBehaviour,  \* how ffmpeg behaves for the k-th command of a request
    pc,             \* position of the handler
    items,          \* the list the batch loop iterates (cuts / segments)
    idx,            \* 1-based position of the loop in items
    results,        \* the handler's local results list
    opResult,       \* what the ffmpeg wrapper gave: "none","True","False","raised"
    running,        \* ffmpeg processes of this request that are alive
    syscalls,       \* calls this request made to the OS, in order
    response,       \* the HTTP response of this request
    prev,           \* the response of the previous run of the same request
    run             \* how many times the request has been submitted

timeVars == <<time_str, time_result>>
cutlistVars == <<line, cuts, nread, eof>>
handlerVars == <<req, inputExists, cutlistExists, cutlistFile, dirState, outFiles,
                 toolBehaviour, pc, items, idx, results, opResult, running,
                 syscalls, response, prev, run>>
vars == <<timeVars, cutlistVars, handlerVars>>

-----------------------------------------------------------------------------
(* Python values and string primitives                                     *)

PyStr(s) == [t |-> "str", v |-> s]
PyNone == [t |-> "none", v |-> <<>>]

RECURSIVE SeqsUpTo(_, _)
\* all sequences over alphabet of length at most n
SeqsUpTo(alphabet, n) ==
    IF n = 0 THEN {<<>>}
    ELSE LET shorter == SeqsUpTo(alphabet, n - 1)
         IN  shorter \cup {Append(s, c) : s \in {x \in shorter : Len(x) = n - 1}, c \in alphabet}

Whitespace == {" ", "\t", "\n", "\r"}

RECURSIVE LStrip(_)
LStrip(s) == IF s # <<>> /\ Head(s) \in Whitespace THEN LStrip(Tail(s)) ELSE s

RECURSIVE RStrip(_)
RStrip(s) ==
    IF s # <<>> /\ s[Len(s)] \in Whitespace THEN RStrip(SubSeq(s, 1, Len(s) - 1)) ELSE s

\* str.strip()
Strip(s) == RStrip(LStrip(s))

\* str.startswith(prefix)
StartsWith(s, prefix) ==
    Len(s) >= Len(prefix) /\ SubSeq(s, 1, Len(prefix)) = prefix

\* str.endswith(suffix)
EndsWith(s, suffix) ==
    Len(s) >= Len(suffix) /\ SubSeq(s, Len(s) - Len(suffix) + 1, Len(s)) = suffix

RECURSIVE SplitOn(_, _)
\* str.split(sep) for a one-character sep: k separators give k+1 parts
SplitOn(s, sep) ==
    IF \A i \in 1..Len(s) : s[i] # sep THEN <<s>>
    ELSE LET i == CHOOSE k \in 1..Len(s) : s[k] = sep /\ \A j \in 1..(k - 1) : s[j] # sep
         IN  <<SubSeq(s, 1, i - 1)>> \o SplitOn(SubSeq(s, i + 1, Len(s)), sep)

RECURSIVE SplitWs(_)
\* str.split() with no argument: runs of whitespace separate, no empty parts
SplitWs(s) ==
    LET t == LStrip(s)
    IN  IF t = <<>> THEN <<>>
        ELSE LET n == IF \E k \in 1..Len(t) : t[k] \in Whitespace
                      THEN (CHOOSE k \in 1..Len(t) :
                                t[k] \in Whitespace /\ \A j \in 1..(k - 1) : t[j] \notin Whitespace) - 1
                      ELSE Len(t)
             IN  <<SubSeq(t, 1, n)>> \o SplitWs(SubSeq(t, n + 1, Len(t)))

Digits == {"0", "1", "2", "3", "4", "5", "6", "7", "8", "9"}

DigitVal(c) ==
    CASE c = "0" -> 0 [] c = "1" -> 1 [] c = "2" -> 2 [] c = "3" -> 3 [] c = "4" -> 4
      [] c = "5" -> 5 [] c = "6" -> 6 [] c = "7" -> 7 [] c = "8" -> 8 [] c = "9" -> 9

RECURSIVE DigitsValue(_, _)
\* value of a digit string that may hold '_' between digits, left to right
DigitsValue(s, acc) ==
    IF s = <<>> THEN acc
    ELSE IF Head(s) = "_" THEN DigitsValue(Tail(s), acc)
    ELSE DigitsValue(Tail(s), 10 * acc + DigitVal(Head(s)))

\* the body int() accepts after the sign: digits, single underscores between digits
IsDigitBody(s) ==
    /\ s # <<>>
    /\ \A i \in 1..Len(s) : s[i] \in Digits \cup {"_"}
    /\ s[1] # "_" /\ s[Len(s)] # "_"
    /\ \A i \in 1..(Len(s) - 1) : ~(s[i] = "_" /\ s[i + 1] = "_")

\* int(s) for a str: surrounding whitespace stripped, one optional sign.
\* [ok |-> FALSE] is ValueError.
PyInt(s) ==
    LET t == Strip(s)
        signed == t # <<>> /\ t[1] \in {"+", "-"}
        body == IF signed THEN Tail(t) ELSE t
    IN  IF IsDigitBody(body)
        THEN [ok |-> TRUE,
              val |-> IF signed /\ t[1] = "-" THEN 0 - DigitsValue(body, 0)
                      ELSE DigitsValue(body, 0)]
        ELSE [ok |-> FALSE, val |-> 0]

-----------------------------------------------------------------------------
(* validate_time_format                                                    *)

\* InRange with the minutes bound off by one
InRangeMinutes60(hours, minutes, seconds) ==
    /\ 0 <= hours /\ hours <= 23
    /\ 0 <= minutes /\ minutes <= 60
    /\ 0 <= seconds /\ seconds <= 59

\* the three range comparisons of the return statement
InRange(hours, minutes, seconds) ==
    /\ 0 <= hours /\ hours <= 23
    /\ 0 <= minutes /\ minutes <= 59
    /\ 0 <= seconds /\ seconds <= 59

\* the try body: "True", "False", or the exception a statement of it raises
TimeFormatBody(x) ==
    IF x.t # "str" THEN "AttributeError"              \* no .split on a non-string
    ELSE LET parts == SplitOn(x.v, ":")
         IN  IF Len(parts) # 3 THEN "False"
             ELSE LET h == PyInt(parts[1])
                      m == PyInt(parts[2])
                      s == PyInt(parts[3])
                  IN  IF ~(h.ok /\ m.ok /\ s.ok) THEN "ValueError"
                      ELSE IF InRange(h.val, m.val, s.val) THEN "True" ELSE "False"

\* the exceptions the bare except clause catches
ExceptCatches(exc) == exc \in {"AttributeError", "ValueError"}

\* what the call gives its caller; "raised" is an exception leaving the function
validate_time_format(x) ==
    LET r == TimeFormatBody(x)
    IN  IF r \in {"True", "False"} THEN r
        ELSE IF ExceptCatches(r) THEN "False" ELSE "raised"

-----------------------------------------------------------------------------
(* process_cutlist                                                         *)

MP4 == <<".", "m", "p", "4">>

\* CutlistLine without the test for a leading '#'
CutlistLineNoCommentSkip(ln) ==
    LET stripped == Strip(ln)
    IN  IF stripped = <<>> THEN <<>>
        ELSE LET parts == SplitWs(stripped)
             IN  IF Len(parts) = 3
                 THEN <<[start |-> parts[1], end |-> parts[2], output |-> parts[3] \o MP4]>>
                 ELSE <<>>

\* the body of the for loop: what one line appends to cuts
CutlistLine(ln) ==
    LET stripped == Strip(ln)
    IN  IF stripped = <<>> \/ StartsWith(stripped, <<"#">>) THEN <<>>
        ELSE LET parts == SplitWs(stripped)
             IN  IF Len(parts) = 3
                 THEN <<[start |-> parts[1], end |-> parts[2], output |-> parts[3] \o MP4]>>
                 ELSE <<>>

RECURSIVE process_cutlist(_)
\* the whole function on the lines of the file
process_cutlist(lines) ==
    IF lines = <<>> THEN <<>>
    ELSE CutlistLine(Head(lines)) \o process_cutlist(Tail(lines))

-----------------------------------------------------------------------------
(* Paths, formats and the ffmpeg command lines                             *)

SHARED_FOLDER == <<"/", "s", "h", "a", "r", "e", "d">>

\* os.path.join(a, b): an absolute b replaces a
JoinPath(a, b) ==
    IF StartsWith(b, <<"/">>) THEN b
    ELSE IF a = <<>> \/ EndsWith(a, <<"/">>) THEN a \o b
    ELSE a \o <<"/">> \o b

UpperLetters == <<"A", "B", "C", "D", "E", "F", "G", "H", "I", "J", "K", "L", "M",
                  "N", "O", "P", "Q", "R", "S", "T", "U", "V", "W", "X", "Y", "Z">>
LowerLetters == <<"a", "b", "c", "d", "e", "f", "g", "h", "i", "j", "k", "l", "m",
                  "n", "o", "p", "q", "r", "s", "t", "u", "v", "w", "x", "y", "z">>

\* str.lower()
Lower(s) ==
    [i \in 1..Len(s) |->
        IF \E k \in 1..26 : UpperLetters[k] = s[i]
        THEN LowerLetters[CHOOSE k \in 1..26 : UpperLetters[k] = s[i]]
        ELSE s[i]]

FMT_mp3 == <<"m", "p", "3">>
FMT_wav == <<"w", "a", "v">>

\* FormatSupported with a third format let through
FormatSupportedOgg(audio_format) == audio_format \in {FMT_mp3, FMT_wav, <<"o", "g", "g">>}

\* the membership test of extract_audio_endpoint
FormatSupported(audio_format) == audio_format \in {FMT_mp3, FMT_wav}

\* CutVideoCmd without -y
CutVideoCmdNoOverwrite(input_path, start_time, end_time, output_path) ==
    [prog |-> "ffmpeg", input |-> input_path, ss |-> start_time, to |-> end_time,
     vcodec |-> "libx264", preset |-> "medium", acodec |-> "aac",
     flags |-> {}, output |-> output_path]

\* the argument list of cut_video
CutVideoCmd(input_path, start_time, end_time, output_path) ==
    [prog |-> "ffmpeg", input |-> input_path, ss |-> start_time, to |-> end_time,
     vcodec |-> "libx264", preset |-> "medium", acodec |-> "aac",
     flags |-> {"-y"}, output |-> output_path]

\* the argument list of extract_audio
ExtractAudioCmd(input_path, output_path, audio_format) ==
    [prog |-> "ffmpeg", input |-> input_path, ss |-> <<>>, to |-> <<>>,
     vcodec |-> "", preset |-> "",
     acodec |-> IF audio_format = FMT_mp3 THEN "libmp3lame" ELSE "pcm_s16le",
     flags |-> {"-vn", "-y"}, output |-> output_path]

\* the argument list of extract_muted_video
ExtractMutedVideoCmd(input_path, output_path) ==
    [prog |-> "ffmpeg", input |-> input_path, ss |-> <<>>, to |-> <<>>,
     vcodec |-> "copy", preset |-> "", acodec |-> "",
     flags |-> {"-an", "-y"}, output |-> output_path]

\* How the ffmpeg process started with cmd as the k-th command of the request ends:
\* "unlaunchable" (subprocess.run raises OSError), "exit0", "nonzero" (stderr
\* decodes) or "nonzero_undecodable" (stderr is not UTF-8). Without -y ffmpeg
\* refuses to replace an output that exists.
ToolOutcomes == {"exit0", "nonzero", "nonzero_undecodable", "unlaunchable"}

FfmpegOutcome(cmd, k) ==
    IF toolBehaviour[k] = "unlaunchable" THEN "unlaunchable"
    ELSE IF cmd.output \in outFiles /\ "-y" \notin cmd.flags THEN "nonzero"
    ELSE toolBehaviour[k]

\* try: subprocess.run(check=True) / except CalledProcessError: print(stderr.decode())
\* "raised" is an exception that leaves the wrapper.
cut_video(outcome) ==
    CASE outcome = "exit0" -> "True"
      [] outcome = "nonzero" -> "False"
      [] outcome = "nonzero_undecodable" -> "raised"     \* UnicodeDecodeError in the handler
      [] outcome = "unlaunchable" -> "raised"            \* OSError is not CalledProcessError

extract_audio(outcome) ==
    CASE outcome = "exit0" -> "True"
      [] outcome = "nonzero" -> "False"
      [] outcome = "nonzero_undecodable" -> "raised"
      [] outcome = "unlaunchable" -> "raised"

extract_muted_video(outcome) ==
    CASE outcome = "exit0" -> "True"
      [] outcome = "nonzero" -> "False"
      [] outcome = "nonzero_undecodable" -> "raised"
      [] outcome = "unlaunchable" -> "raised"

\* os.makedirs(path, exist_ok=True) on what is at path
Makedirs(state) ==
    [raises |-> state = "file",
     state  |-> IF state = "absent" THEN "dir" ELSE state]

-----------------------------------------------------------------------------
(* Responses                                                               *)

NoResponse == [status |-> 0, error |-> "", index |-> -1, results |-> <<>>,
               output_file |-> <<>>, format |-> <<>>]

ErrorResponse(code, kind, i) == [NoResponse EXCEPT !.status = code, !.error = kind, !.index = i]

\* Flask answers 500 when the view function raises
Unhandled == ErrorResponse(500, "unhandled exception", -1)

BatchEndpoints == {"segments_from_file", "segments"}

-----------------------------------------------------------------------------
(* The requests and the files the handlers are run on                      *)

MaxItems == 2       \* longest segments list / cutlist file (in lines)
MaxRuns == 2        \* how often the same request is submitted

T_000010 == <<"0", "0", ":", "0", "0", ":", "1", "0">>
T_000020 == <<"0", "0", ":", "0", "0", ":", "2", "0">>
T_240000 == <<"2", "4", ":", "0", "0", ":", "0", "0">>
N_a == <<"a">>
N_b == <<"b">>

SegmentFields == {"start_time", "end_time", "output_name"}

Seg(start, end, name) ==
    [t |-> "dict", has |-> SegmentFields, start_time |-> start, end_time |-> end,
     output_name |-> name]

SegNotObject == [Seg(PyNone, PyNone, <<>>) EXCEPT !.t = "str", !.has = {}]
SegNoName == [Seg(PyStr(T_000010), PyStr(T_000020), <<>>) EXCEPT !.has = {"start_time", "end_time"}]
SegBadStart == Seg(PyStr(T_240000), PyStr(T_000020), N_a)
SegBadEnd == Seg(PyStr(T_000010), PyNone, N_b)
SegA == Seg(PyStr(T_000010), PyStr(T_000020), N_a)
SegB == Seg(PyStr(T_000020), PyStr(T_000010), N_b)

SegmentSamples == {SegNotObject, SegNoName, SegBadStart, SegBadEnd, SegA, SegB}

RECURSIVE ListsUpTo(_, _)
\* all lists of at most n elements of S
ListsUpTo(S, n) ==
    IF n = 0 THEN {<<>>}
    ELSE LET shorter == ListsUpTo(S, n - 1)
         IN  shorter \cup {Append(l, e) : l \in {x \in shorter : Len(x) = n - 1}, e \in S}

\* the values of data['segments']: a list, or something that is not a list
SegmentsValues ==
    {[t |-> "list", v |-> l] : l \in ListsUpTo(SegmentSamples, MaxItems)}
        \cup {[t |-> "str", v |-> <<>>]}

L_A == <<"0", "0", ":", "0", "0", ":", "1", "0", " ", "0", "0", ":", "0", "0", ":", "2", "0", " ", "a", "\n">>
L_B == <<" ", "0", "0", ":", "0", "0", ":", "2", "0", "\t", "0", "0", ":", "0", "0", ":", "1", "0", " ", " ", "b", " ", "\n">>
L_BadTime == <<"2", "4", ":", "0", "0", ":", "0", "0", " ", "x", " ", "c", "\n">>
L_TwoTokens == <<"b", "a", "d", " ", "l", "i", "n", "e", "\n">>
L_Comment == <<"#", " ", "0", "0", ":", "0", "0", ":", "1", "0", " ", "0", "0", ":", "0", "0", ":", "2", "0", "\n">>
L_Blank == <<"\n">>

CutlistLineSamples == {L_A, L_B, L_BadTime, L_TwoTokens, L_Comment, L_Blank}
CutlistFiles == ListsUpTo(CutlistLineSamples, MaxItems)

F_MP3 == <<"M", "P", "3">>
F_Wav == <<"W", "a", "v">>
F_ogg == <<"o", "g", "g">>

\* data.get('format', 'mp3'): given as a string, given as null, or the default
FormatValues ==
    {PyStr(f) : f \in {FMT_mp3, FMT_wav, F_MP3, F_Wav, F_ogg, <<>>}} \cup {PyNone}
        \cup {[t |-> "absent", v |-> <<>>]}

OutputFileValues == {<<"x">>, <<"x">> \o MP4, <<"x", ".">> \o FMT_mp3}

BaseRequest ==
    [endpoint |-> "", fieldsPresent |-> TRUE, input_file |-> <<"i">>,
     cutlist_file |-> <<"c">>, output_folder |-> <<"o">>, output_file |-> <<>>,
     format |-> PyNone, segments |-> [t |-> "str", v |-> <<>>]]

Requests ==
    {[BaseRequest EXCEPT !.endpoint = "segments_from_file", !.fieldsPresent = fp] :
        fp \in BOOLEAN}
    \cup {[BaseRequest EXCEPT !.endpoint = "segments", !.fieldsPresent = fp, !.segments = sv] :
        fp \in BOOLEAN, sv \in SegmentsValues}
    \cup {[BaseRequest EXCEPT !.endpoint = "extract_audio", !.fieldsPresent = fp,
                              !.output_file = o, !.format = f] :
        fp \in BOOLEAN, o \in OutputFileValues, f \in FormatValues}
    \cup {[BaseRequest EXCEPT !.endpoint = "extract_muted_video", !.fieldsPresent = fp,
                              !.output_file = o] :
        fp \in BOOLEAN, o \in OutputFileValues}

\* how many ffmpeg commands the request issues when nothing stops it
NCommands(r, file) ==
    IF r.endpoint = "segments_from_file" THEN Len(process_cutlist(file))
    ELSE IF r.endpoint = "segments" THEN Len(r.segments.v)
    ELSE 1

-----------------------------------------------------------------------------
(* The handlers                                                            *)

Exists(path) == [call |-> "exists", path |-> path]
MakedirsCall(path) == [call |-> "makedirs", path |-> path]
OpenCall(path) == [call |-> "open", path |-> path]
RunCall(cmd) == [call |-> "run", cmd |-> cmd]

input_path == JoinPath(SHARED_FOLDER, req.input_file)
cutlist_path == JoinPath(SHARED_FOLDER, req.cutlist_file)
output_dir == JoinPath(SHARED_FOLDER, req.output_folder)

\* FilesExist that forgets the cutlist
FilesExistInputOnly == inputExists

\* all(os.path.exists(p) for p in [input_path, cutlist_path])
FilesExist == inputExists /\ cutlistExists

\* os.path.exists(input_path) of the other three handlers
InputFileExists == inputExists

\* SegmentError without the end_time check
SegmentErrorNoEndCheck(segment) ==
    IF segment.t # "dict" THEN "must be an object"
    ELSE IF ~(SegmentFields \subseteq segment.has) THEN "missing required fields"
    ELSE IF validate_time_format(segment.start_time) # "True" THEN "invalid start_time"
    ELSE ""

\* the checks of one segment in create_segments; "" when it passes
SegmentError(segment) ==
    IF segment.t # "dict" THEN "must be an object"
    ELSE IF ~(SegmentFields \subseteq segment.has) THEN "missing required fields"
    ELSE IF validate_time_format(segment.start_time) # "True" THEN "invalid start_time"
    ELSE IF validate_time_format(segment.end_time) # "True" THEN "invalid end_time"
    ELSE ""

RECURSIVE ValidateSegments(_, _)
\* the validation loop of create_segments from index i (0-based, as enumerate counts)
ValidateSegments(segments, i) ==
    IF i >= Len(segments) THEN [error |-> "", index |-> -1]
    ELSE IF SegmentError(segments[i + 1]) # ""
         THEN [error |-> SegmentError(segments[i + 1]), index |-> i]
         ELSE ValidateSegments(segments, i + 1)

\* the handler returns (or raises): the request is over
Return(resp) ==
    /\ pc' = "done"
    /\ response' = resp

\* the ffmpeg command of the loop's current item
CurrentCutCmd ==
    CutVideoCmd(input_path, items[idx].start, items[idx].end,
                JoinPath(output_dir, items[idx].output))

\* create_segments_from_file up to the loop
SegmentsFromFileBegin ==
    /\ pc = "entry" /\ req.endpoint = "segments_from_file"
    /\ LET checks == <<Exists(input_path)>>
                        \o (IF inputExists THEN <<Exists(cutlist_path)>> ELSE <<>>)
           mk == Makedirs(dirState)
       IN  IF ~req.fieldsPresent
           THEN /\ Return(ErrorResponse(400, "missing required fields", -1))
                /\ UNCHANGED <<syscalls, dirState, items, results, idx>>
           ELSE IF ~FilesExist
           THEN /\ Return(ErrorResponse(404, "input file or cutlist file not found", -1))
                /\ syscalls' = checks
                /\ UNCHANGED <<dirState, items, results, idx>>
           ELSE IF mk.raises
           THEN /\ Return(Unhandled)
                /\ syscalls' = checks \o <<MakedirsCall(output_dir)>>
                /\ UNCHANGED <<dirState, items, results, idx>>
           ELSE IF ~cutlistExists      \* open() raises FileNotFoundError
           THEN /\ Return(Unhandled)
                /\ syscalls' = checks \o <<MakedirsCall(output_dir), OpenCall(cutlist_path)>>
                /\ dirState' = mk.state
                /\ UNCHANGED <<items, results, idx>>
           ELSE /\ pc' = "loop"
                /\ syscalls' = checks \o <<MakedirsCall(output_dir), OpenCall(cutlist_path)>>
                /\ dirState' = mk.state
                /\ items' = process_cutlist(cutlistFile)
                /\ results' = <<>>
                /\ idx' = 1
                /\ UNCHANGED response
    /\ UNCHANGED <<req, inputExists, cutlistExists, cutlistFile, outFiles, toolBehaviour,
                   opResult, running, prev, run>>
    /\ UNCHANGED <<timeVars, cutlistVars>>

\* create_segments up to the loop
SegmentsBegin ==
    /\ pc = "entry" /\ req.endpoint = "segments"
    /\ LET segments == req.segments
           bad == ValidateSegments(segments.v, 0)
           mk == Makedirs(dirState)
       IN  IF ~req.fieldsPresent
           THEN /\ Return(ErrorResponse(400, "missing required fields", -1))
                /\ UNCHANGED <<syscalls, dirState, items, results, idx>>
           ELSE IF segments.t # "list" \/ segments.v = <<>>
           THEN /\ Return(ErrorResponse(400, "segments must be a non-empty array", -1))
                /\ UNCHANGED <<syscalls, dirState, items, results, idx>>
           ELSE IF bad.error # ""
           THEN /\ Return(ErrorResponse(400, bad.error, bad.index))
                /\ UNCHANGED <<syscalls, dirState, items, results, idx>>
           ELSE IF ~InputFileExists
           THEN /\ Return(ErrorResponse(404, "input file not found", -1))
                /\ syscalls' = <<Exists(input_path)>>
                /\ UNCHANGED <<dirState, items, results, idx>>
           ELSE IF mk.raises
           THEN /\ Return(Unhandled)
                /\ syscalls' = <<Exists(input_path), MakedirsCall(output_dir)>>
                /\ UNCHANGED <<dirState, items, results, idx>>
           ELSE /\ pc' = "loop"
                /\ syscalls' = <<Exists(input_path), MakedirsCall(output_dir)>>
                /\ dirState' = mk.state
                /\ items' = [i \in 1..Len(segments.v) |->
                                [start |-> segments.v[i].start_time.v,
                                 end |-> segments.v[i].end_time.v,
                                 output |-> segments.v[i].output_name \o MP4]]
                /\ results' = <<>>
                /\ idx' = 1
                /\ UNCHANGED response
    /\ UNCHANGED <<req, inputExists, cutlistExists, cutlistFile, outFiles, toolBehaviour,
                   opResult, running, prev, run>>
    /\ UNCHANGED <<timeVars, cutlistVars>>

\* cut_video called for the next item: subprocess.run starts ffmpeg
CutVideoRun ==
    /\ pc = "loop" /\ req.endpoint \in BatchEndpoints /\ idx <= Len(items)
    /\ syscalls' = Append(syscalls, RunCall(CurrentCutCmd))
    /\ IF FfmpegOutcome(CurrentCutCmd, idx) = "unlaunchable"
       THEN /\ opResult' = cut_video("unlaunchable")
            /\ Return(Unhandled)
            /\ UNCHANGED running
       ELSE /\ pc' = "running"
            /\ running' = running + 1
            /\ opResult' = "none"
            /\ UNCHANGED response
    /\ UNCHANGED <<req, inputExists, cutlistExists, cutlistFile, dirState, outFiles,
                   toolBehaviour, items, idx, results, prev, run>>
    /\ UNCHANGED <<timeVars, cutlistVars>>

\* ffmpeg exits and cut_video returns or raises
CutVideoExit ==
    /\ pc = "running" /\ req.endpoint \in BatchEndpoints
    /\ running' = running - 1
    /\ opResult' = cut_video(FfmpegOutcome(CurrentCutCmd, idx))
    /\ outFiles' = IF FfmpegOutcome(CurrentCutCmd, idx) = "exit0"
                   THEN outFiles \cup {CurrentCutCmd.output} ELSE outFiles
    /\ IF opResult' = "raised"
       THEN Return(Unhandled)
       ELSE pc' = "returned" /\ UNCHANGED response
    /\ UNCHANGED <<req, inputExists, cutlistExists, cutlistFile, dirState,
                   toolBehaviour, items, idx, results, syscalls, prev, run>>
    /\ UNCHANGED <<timeVars, cutlistVars>>

\* results.append(...) and the loop moves on
AppendResult ==
    /\ pc = "returned" /\ req.endpoint \in BatchEndpoints
    /\ results' = Append(results,
            IF req.endpoint = "segments_from_file"
            THEN [output_file |-> JoinPath(req.output_folder, items[idx].output),
                  success |-> opResult = "True"]
            ELSE [output_file |-> JoinPath(req.output_folder, items[idx].output),
                  start_time |-> items[idx].start,
                  end_time |-> items[idx].end,
                  success |-> opResult = "True"])
    /\ idx' = idx + 1
    /\ pc' = "loop"
    /\ UNCHANGED <<req, inputExists, cutlistExists, cutlistFile, dirState, outFiles,
                   toolBehaviour, items, opResult, running, syscalls, response, prev, run>>
    /\ UNCHANGED <<timeVars, cutlistVars>>

\* the loop is over: 'Processing complete'
BatchRespond ==
    /\ pc = "loop" /\ req.endpoint \in BatchEndpoints /\ idx > Len(items)
    /\ Return([NoResponse EXCEPT !.status = 200, !.results = results])
    /\ UNCHANGED <<req, inputExists, cutlistExists, cutlistFile, dirState, outFiles,
                   toolBehaviour, items, idx, results, opResult, running, syscalls,
                   prev, run>>
    /\ UNCHANGED <<timeVars, cutlistVars>>

\* audio_format = data.get('format', 'mp3').lower(), for a format that is a string or absent
AudioFormat == IF req.format.t = "absent" THEN FMT_mp3 ELSE Lower(req.format.v)

\* output_name of extract_audio_endpoint
AudioOutputName ==
    IF EndsWith(req.output_file, <<".">> \o AudioFormat) THEN req.output_file
    ELSE req.output_file \o <<".">> \o AudioFormat

\* output_name of extract_muted_video_endpoint
MutedOutputName ==
    IF EndsWith(req.output_file, MP4) THEN req.output_file ELSE req.output_file \o MP4

AudioCmd == ExtractAudioCmd(input_path, JoinPath(SHARED_FOLDER, AudioOutputName), AudioFormat)
MutedCmd == ExtractMutedVideoCmd(input_path, JoinPath(SHARED_FOLDER, MutedOutputName))

\* extract_audio_endpoint up to the call of extract_audio
ExtractAudioBegin ==
    /\ pc = "entry" /\ req.endpoint = "extract_audio"
    /\ IF ~req.fieldsPresent
       THEN Return(ErrorResponse(400, "missing required fields", -1)) /\ UNCHANGED syscalls
       ELSE IF req.format.t \notin {"str", "absent"}      \* .lower() on a non-string
       THEN Return(Unhandled) /\ UNCHANGED syscalls
       ELSE IF ~FormatSupported(AudioFormat)
       THEN Return(ErrorResponse(400, "unsupported audio format", -1)) /\ UNCHANGED syscalls
       ELSE IF ~InputFileExists
       THEN Return(ErrorResponse(404, "input file not found", -1))
            /\ syscalls' = <<Exists(input_path)>>
       ELSE /\ pc' = "call"
            /\ syscalls' = <<Exists(input_path)>>
            /\ UNCHANGED response
    /\ UNCHANGED <<req, inputExists, cutlistExists, cutlistFile, dirState, outFiles,
                   toolBehaviour, items, idx, results, opResult, running, prev, run>>
    /\ UNCHANGED <<timeVars, cutlistVars>>

\* extract_audio called: subprocess.run starts ffmpeg
ExtractAudioRun ==
    /\ pc = "call" /\ req.endpoint = "extract_audio"
    /\ syscalls' = Append(syscalls, RunCall(AudioCmd))
    /\ IF FfmpegOutcome(AudioCmd, 1) = "unlaunchable"
       THEN /\ opResult' = extract_audio("unlaunchable")
            /\ Return(Unhandled)
            /\ UNCHANGED running
       ELSE /\ pc' = "running"
            /\ running' = running + 1
            /\ opResult' = "none"
            /\ UNCHANGED response
    /\ UNCHANGED <<req, inputExists, cutlistExists, cutlistFile, dirState, outFiles,
                   toolBehaviour, items, idx, results, prev, run>>
    /\ UNCHANGED <<timeVars, cutlistVars>>

\* ffmpeg exits and extract_audio returns or raises
ExtractAudioExit ==
    /\ pc = "running" /\ req.endpoint = "extract_audio"
    /\ running' = running - 1
    /\ opResult' = extract_audio(FfmpegOutcome(AudioCmd, 1))
    /\ outFiles' = IF FfmpegOutcome(AudioCmd, 1) = "exit0"
                   THEN outFiles \cup {AudioCmd.output} ELSE outFiles
    /\ IF opResult' = "raised"
       THEN Return(Unhandled)
       ELSE pc' = "returned" /\ UNCHANGED response
    /\ UNCHANGED <<req, inputExists, cutlistExists, cutlistFile, dirState,
                   toolBehaviour, items, idx, results, syscalls, prev, run>>
    /\ UNCHANGED <<timeVars, cutlistVars>>

\* the response of extract_audio_endpoint
ExtractAudioRespond ==
    /\ pc = "returned" /\ req.endpoint = "extract_audio"
    /\ IF opResult = "True"
       THEN Return([NoResponse EXCEPT !.status = 200, !.output_file = AudioOutputName,
                                      !.format = AudioFormat])
       ELSE Return(ErrorResponse(500, "failed to extract audio", -1))
    /\ UNCHANGED <<req, inputExists, cutlistExists, cutlistFile, dirState, outFiles,
                   toolBehaviour, items, idx, results, opResult, running, syscalls,
                   prev, run>>
    /\ UNCHANGED <<timeVars, cutlistVars>>

\* extract_muted_video_endpoint up to the call of extract_muted_video
ExtractMutedVideoBegin ==
    /\ pc = "entry" /\ req.endpoint = "extract_muted_video"
    /\ IF ~req.fieldsPresent
       THEN Return(ErrorResponse(400, "missing required fields", -1)) /\ UNCHANGED syscalls
       ELSE IF ~InputFileExists
       THEN Return(ErrorResponse(404, "input file not found", -1))
            /\ syscalls' = <<Exists(input_path)>>
       ELSE /\ pc' = "call"
            /\ syscalls' = <<Exists(input_path)>>
            /\ UNCHANGED response
    /\ UNCHANGED <<req, inputExists, cutlistExists, cutlistFile, dirState, outFiles,
                   toolBehaviour, items, idx, results, opResult, running, prev, run>>
    /\ UNCHANGED <<timeVars, cutlistVars>>

\* extract_muted_video called: subprocess.run starts ffmpeg
ExtractMutedVideoRun ==
    /\ pc = "call" /\ req.endpoint = "extract_muted_video"
    /\ syscalls' = Append(syscalls, RunCall(MutedCmd))
    /\ IF FfmpegOutcome(MutedCmd, 1) = "unlaunchable"
       THEN /\ opResult' = extract_muted_video("unlaunchable")
            /\ Return(Unhandled)
            /\ UNCHANGED running
       ELSE /\ pc' = "running"
            /\ running' = running + 1
            /\ opResult' = "none"
            /\ UNCHANGED response
    /\ UNCHANGED <<req, inputExists, cutlistExists, cutlistFile, dirState, outFiles,
                   toolBehaviour, items, idx, results, prev, run>>
    /\ UNCHANGED <<timeVars, cutlistVars>>

\* ffmpeg exits and extract_muted_video returns or raises
ExtractMutedVideoExit ==
    /\ pc = "running" /\ req.endpoint = "extract_muted_video"
    /\ running' = running - 1
    /\ opResult' = extract_muted_video(FfmpegOutcome(MutedCmd, 1))
    /\ outFiles' = IF FfmpegOutcome(MutedCmd, 1) = "exit0"
                   THEN outFiles \cup {MutedCmd.output} ELSE outFiles
    /\ IF opResult' = "raised"
       THEN Return(Unhandled)
       ELSE pc' = "returned" /\ UNCHANGED response
    /\ UNCHANGED <<req, inputExists, cutlistExists, cutlistFile, dirState,
                   toolBehaviour, items, idx, results, syscalls, prev, run>>
    /\ UNCHANGED <<timeVars, cutlistVars>>

\* the response of extract_muted_video_endpoint
ExtractMutedVideoRespond ==
    /\ pc = "returned" /\ req.endpoint = "extract_muted_video"
    /\ IF opResult = "True"
       THEN Return([NoResponse EXCEPT !.status = 200, !.output_file = MutedOutputName])
       ELSE Return(ErrorResponse(500, "failed to extract muted video", -1))
    /\ UNCHANGED <<req, inputExists, cutlistExists, cutlistFile, dirState, outFiles,
                   toolBehaviour, items, idx, results, opResult, running, syscalls,
                   prev, run>>
    /\ UNCHANGED <<timeVars, cutlistVars>>

\* the client sends the same request again; the files of the first run are still there
Resubmit ==
    /\ pc = "done" /\ run < MaxRuns
    /\ run' = run + 1
    /\ prev' = response
    /\ pc' = "entry"
    /\ items' = <<>> /\ idx' = 1 /\ results' = <<>> /\ opResult' = "none"
    /\ syscalls' = <<>> /\ response' = NoResponse
    /\ UNCHANGED <<req, inputExists, cutlistExists, cutlistFile, dirState, outFiles,
                   toolBehaviour, running>>
    /\ UNCHANGED <<timeVars, cutlistVars>>

-----------------------------------------------------------------------------
(* Specifications                                                          *)

TimeParked == time_str = PyNone /\ time_result = "none"
CutlistParked == line = <<>> /\ cuts = <<>> /\ nread = 0 /\ eof = FALSE
HandlerParked ==
    /\ req = BaseRequest /\ inputExists = FALSE /\ cutlistExists = FALSE
    /\ cutlistFile = <<>> /\ dirState = "absent" /\ outFiles = {}
    /\ toolBehaviour = <<>> /\ pc = "parked" /\ items = <<>> /\ idx = 1
    /\ results = <<>> /\ opResult = "none" /\ running = 0 /\ syscalls = <<>>
    /\ response = NoResponse /\ prev = NoResponse /\ run = 0

\* A request arrives at a server whose shared folder is in any of these states
Init ==
    /\ TimeParked /\ CutlistParked
    /\ req \in Requests
    /\ inputExists \in BOOLEAN
    /\ cutlistExists \in (IF req.endpoint = "segments_from_file" THEN BOOLEAN ELSE {FALSE})
    /\ cutlistFile \in (IF cutlistExists THEN CutlistFiles ELSE {<<>>})
    /\ dirState \in (IF req.endpoint \in BatchEndpoints THEN {"absent", "dir", "file"}
                     ELSE {"absent"})
    /\ outFiles = {}
    /\ toolBehaviour \in [1..NCommands(req, cutlistFile) -> ToolOutcomes]
    /\ pc = "entry" /\ items = <<>> /\ idx = 1 /\ results = <<>> /\ opResult = "none"
    /\ running = 0 /\ syscalls = <<>> /\ response = NoResponse /\ prev = NoResponse
    /\ run = 1

Next ==
    \/ SegmentsFromFileBegin
    \/ SegmentsBegin
    \/ CutVideoRun
    \/ CutVideoExit
    \/ AppendResult
    \/ BatchRespond
    \/ ExtractAudioBegin
    \/ ExtractAudioRun
    \/ ExtractAudioExit
    \/ ExtractAudioRespond
    \/ ExtractMutedVideoBegin
    \/ ExtractMutedVideoRun
    \/ ExtractMutedVideoExit
    \/ ExtractMutedVideoRespond
    \/ Resubmit

Spec == Init /\ [][Next]_vars

\* ---- validate_time_format on every short string over TimeAlphabet, and on a non-string

MaxTimeLen == 6
TimeAlphabet == {"0", "2", "6", ":", "a", "-"}

InitTime ==
    /\ CutlistParked /\ HandlerParked
    /\ time_str \in {PyStr(s) : s \in SeqsUpTo(TimeAlphabet, MaxTimeLen)} \cup {PyNone}
    /\ time_result = "none"

ValidateCall ==
    /\ time_result = "none"
    /\ time_result' = validate_time_format(time_str)
    /\ UNCHANGED <<time_str, cutlistVars, handlerVars>>

NextTime == ValidateCall

SpecTime == InitTime /\ [][NextTime]_vars

\* ---- process_cutlist reading a file line by line

MaxLineLen == 5
MaxLines == 2
LineAlphabet == {"a", "#", " "}

InitCutlist ==
    /\ TimeParked /\ HandlerParked
    /\ line = <<>> /\ cuts = <<>> /\ nread = 0 /\ eof = FALSE

\* "for line in f": the file yields its next line, which ends in a newline unless
\* it is the last one
ReadLine ==
    /\ line = <<>> /\ ~eof /\ nread < MaxLines
    /\ \E body \in SeqsUpTo(LineAlphabet, MaxLineLen), eol \in {<<"\n">>, <<>>} :
        /\ body \o eol # <<>>
        /\ line' = body \o eol
        /\ eof' = (eol = <<>>)
    /\ nread' = nread + 1
    /\ UNCHANGED <<cuts, timeVars, handlerVars>>

\* the loop body runs on the line
LoopBody ==
    /\ line # <<>>
    /\ cuts' = cuts \o CutlistLine(line)
    /\ line' = <<>>
    /\ UNCHANGED <<nread, eof, timeVars, handlerVars>>

NextCutlist == ReadLine \/ LoopBody

SpecCutlist == InitCutlist /\ [][NextCutlist]_vars

-----------------------------------------------------------------------------
(* Properties                                                              *)

\* the ffmpeg commands this request has issued so far, in order
RunCalls == SelectSeq(syscalls, LAMBDA c : c.call = "run")

IsBatch == req.endpoint \in BatchEndpoints

\* C1: a batch that reached its loop with N items answers with N results, result i
\* naming item i's output and carrying the outcome of item i's ffmpeg run, whatever
\* the runs of the other items did.
C1_EveryItemHasItsOutcome ==
    (IsBatch /\ pc = "done") =>
        /\ Len(response.results) = Len(items)
        /\ \A i \in 1..Len(items) :
            /\ response.results[i].output_file = JoinPath(req.output_folder, items[i].output)
            /\ response.results[i].success = (toolBehaviour[i] = "exit0")

\* C2: when the input file (or the cutlist of /segments/from-file) is missing, the
\* request makes no makedirs, open or ffmpeg call, builds no result, and ends with
\* one 400/404 answer that carries no results.
MissingFile ==
    IsBatch /\ (~inputExists \/ (req.endpoint = "segments_from_file" /\ ~cutlistExists))

C2_MissingFileRejectsAtomically ==
    MissingFile =>
        /\ \A k \in 1..Len(syscalls) : syscalls[k].call = "exists"
        /\ items = <<>> /\ results = <<>> /\ running = 0 /\ outFiles = {}
        /\ pc \in {"entry", "done"}
        /\ pc = "done" => response.status \in {400, 404} /\ response.results = <<>>

C2_Witness ==
    /\ req.endpoint = "segments_from_file" /\ req.fieldsPresent
    /\ inputExists /\ ~cutlistExists /\ dirState = "absent"
    /\ pc = "done" /\ response.status = 404 /\ run = 2

\* C3: ffmpeg is never started with a -ss or -to value that validate_time_format
\* rejects, and an item with such a value gets a failed result of its own.
C3_TimesValidatedPerItem ==
    /\ \A k \in 1..Len(RunCalls) :
        RunCalls[k].cmd.vcodec = "libx264" =>
            /\ validate_time_format(PyStr(RunCalls[k].cmd.ss)) = "True"
            /\ validate_time_format(PyStr(RunCalls[k].cmd.to)) = "True"
    /\ (IsBatch /\ pc = "done" /\ response.status = 200) =>
        \A i \in 1..Len(items) :
            (validate_time_format(PyStr(items[i].start)) # "True"
                \/ validate_time_format(PyStr(items[i].end)) # "True")
            => ~response.results[i].success

\* C4: a call of cut_video, extract_audio or extract_muted_video never raises: it
\* gives True when ffmpeg exited 0 and False in every other case.
C4_OperationAlwaysBoolean ==
    /\ opResult \in {"none", "True", "False"}
    /\ pc = "returned" =>
        (opResult = "True") = (toolBehaviour[IF IsBatch THEN idx ELSE 1] = "exit0")

\* C5: validate_time_format never raises, and answers True exactly for a string with
\* two colons whose three pieces int() accepts, as an hour 0..23, a minute 0..59 and
\* a second 0..59.
ColonsAt(s) == {i \in 1..Len(s) : s[i] = ":"}

WellFormedTime(x) ==
    /\ x.t = "str"
    /\ Cardinality(ColonsAt(x.v)) = 2
    /\ LET i == CHOOSE k \in ColonsAt(x.v) : \A j \in ColonsAt(x.v) : k <= j
           j == CHOOSE k \in ColonsAt(x.v) : \A m \in ColonsAt(x.v) : m <= k
           hh == PyInt(SubSeq(x.v, 1, i - 1))
           mm == PyInt(SubSeq(x.v, i + 1, j - 1))
           ss == PyInt(SubSeq(x.v, j + 1, Len(x.v)))
       IN  /\ hh.ok /\ hh.val \in 0..23
           /\ mm.ok /\ mm.val \in 0..59
           /\ ss.ok /\ ss.val \in 0..59

C5_ValidatesExactlyWellFormedTimes ==
    time_result # "none" =>
        /\ time_result \in {"True", "False"}
        /\ (time_result = "True") = WellFormedTime(time_str)

C5_Witness ==
    /\ time_str = PyStr(<<"0", ":", "6", "0", ":", "0">>)
    /\ time_result = "False"

\* C6: the loop body appends exactly one entry for a line that has three
\* whitespace-separated tokens, the first not beginning with '#' (start = token 1,
\* end = token 2, output = token 3 + ".mp4"), appends nothing for any other line, and
\* nothing else changes cuts: cuts is the list of the well-formed lines in file order.
TokenStarts(l) == {i \in 1..Len(l) : l[i] \notin Whitespace /\ (i = 1 \/ l[i - 1] \in Whitespace)}

TokenEnd(l, i) ==
    CHOOSE j \in i..Len(l) :
        /\ \A k \in i..j : l[k] \notin Whitespace
        /\ (j = Len(l) \/ l[j + 1] \in Whitespace)

\* the n-th token of l, counting from 1
Token(l, n) ==
    LET i == CHOOSE k \in TokenStarts(l) : Cardinality({m \in TokenStarts(l) : m < k}) = n - 1
    IN  SubSeq(l, i, TokenEnd(l, i))

WellFormedLine(l) == Cardinality(TokenStarts(l)) = 3 /\ Token(l, 1)[1] # "#"

ExpectedCuts(l) ==
    IF WellFormedLine(l)
    THEN <<[start |-> Token(l, 1), end |-> Token(l, 2), output |-> Token(l, 3) \o MP4]>>
    ELSE <<>>

C6_OneEntryPerWellFormedLine ==
    [][IF line # <<>> /\ line' = <<>>
       THEN cuts' = cuts \o ExpectedCuts(line)
       ELSE cuts' = cuts]_vars

C6_Witness ==
    /\ nread = 2 /\ line = <<>> /\ Len(cuts) = 2
    /\ cuts[1].end = <<"#">> /\ cuts[2].end = <<"a">>
    /\ cuts[1].output = <<"a">> \o MP4

\* C7: ffmpeg is started for an audio extraction only with the codec of mp3 or of wav,
\* and a request whose lower-cased format is neither makes no call to the OS at all
\* and is answered 400 "unsupported audio format".
C7_OnlyMp3OrWavReachFfmpeg ==
    (req.endpoint = "extract_audio" /\ req.fieldsPresent) =>
        /\ RunCalls # <<>> =>
            /\ req.format.t \in {"str", "absent"}
            /\ \A k \in 1..Len(RunCalls) :
                \/ AudioFormat = FMT_mp3 /\ RunCalls[k].cmd.acodec = "libmp3lame"
                \/ AudioFormat = FMT_wav /\ RunCalls[k].cmd.acodec = "pcm_s16le"
        /\ (req.format.t = "str" /\ Lower(req.format.v) \notin {FMT_mp3, FMT_wav}) =>
            /\ syscalls = <<>> /\ running = 0 /\ pc \in {"entry", "done"}
            /\ pc = "done" =>
                response.status = 400 /\ response.error = "unsupported audio format"

C7_Witness ==
    /\ req.endpoint = "extract_audio" /\ req.fieldsPresent /\ inputExists
    /\ req.format = PyStr(F_ogg)
    /\ pc = "done" /\ response.status = 400

\* C8: in a batch at most one ffmpeg runs, command k is the command of item k and
\* starts with results of items 1..k-1 recorded and the directory in place, and a
\* batch that started a command ends with a result for every item.
C8_SequentialToCompletion ==
    IsBatch =>
        /\ running <= 1
        /\ \A k \in 1..Len(RunCalls) :
            RunCalls[k].cmd.output = JoinPath(output_dir, items[k].output)
        /\ pc = "running" =>
            /\ dirState = "dir"
            /\ Len(RunCalls) = idx /\ Len(results) = idx - 1
        /\ (pc = "done" /\ RunCalls # <<>>) => Len(response.results) = Len(items)

\* C9: when a batch answered 200, the same batch sent again answers 200 with as many
\* results for the same output paths, and every item that succeeded succeeds again.
C9_SecondRunSucceedsAgain ==
    (IsBatch /\ run >= 2 /\ pc = "done" /\ prev.status = 200) =>
        /\ response.status = 200
        /\ Len(response.results) = Len(prev.results)
        /\ \A i \in 1..Len(prev.results) :
            /\ response.results[i].output_file = prev.results[i].output_file
            /\ prev.results[i].success => response.results[i].success

C9_Witness ==
    /\ IsBatch /\ run = 2 /\ pc = "done" /\ prev.status = 200
    /\ Len(response.results) = 2
    /\ response.results[1].success /\ prev.results[1].success
    /\ ~response.results[2].success

\* C10: a /segments request whose segments value is not a non-empty list, or holds a
\* segment that is not an object, lacks a field or has a start_time or end_time that
\* validate_time_format rejects, makes no call to the OS, and is answered 400 with the
\* index of the first such segment.
BadSegment(seg) ==
    \/ seg.t # "dict"
    \/ \E f \in SegmentFields : f \notin seg.has
    \/ validate_time_format(seg.start_time) = "False"
    \/ validate_time_format(seg.end_time) = "False"

InvalidSegments(sv) ==
    sv.t # "list" \/ sv.v = <<>> \/ \E i \in 1..Len(sv.v) : BadSegment(sv.v[i])

FirstBad(sv) == CHOOSE i \in 1..Len(sv.v) : BadSegment(sv.v[i]) /\ \A j \in 1..(i - 1) : ~BadSegment(sv.v[j])

C10_ValidationPrecedesEffects ==
    (req.endpoint = "segments" /\ req.fieldsPresent /\ InvalidSegments(req.segments)) =>
        /\ syscalls = <<>> /\ items = <<>> /\ running = 0 /\ outFiles = {}
        /\ pc \in {"entry", "done"}
        /\ pc = "done" =>
            /\ response.status = 400
            /\ IF req.segments.t # "list" \/ req.segments.v = <<>>
               THEN response.error = "segments must be a non-empty array"
               ELSE response.index = FirstBad(req.segments) - 1

C10_Witness ==
    /\ req.endpoint = "segments" /\ req.fieldsPresent /\ inputExists
    /\ req.segments.t = "list" /\ Len(req.segments.v) = 2
    /\ req.segments.v[1] = SegA /\ req.segments.v[2] = SegBadEnd
    /\ pc = "done" /\ response.status = 400 /\ response.index = 1

====
